---- MODULE Spec2Model ----
(***************************************************************************)
(* Model of the asynchronous response pipeline of src/http.rs              *)
(* (ApiResponse, ApiResult<T>, ParseBody) and of the enumeration decoders  *)
(* of src/compute/v2/protocol.rs (de_server_status, de_address_type).      *)
(*                                                                         *)
(* The pipeline is driven by an external driver that calls                 *)
(* ApiResult::poll; the transport (hyper's FutureResponse and Body) is the *)
(* environment: it delivers the response head, the body chunks and the     *)
(* end of the body in its own time.  poll is a public method and ApiResult *)
(* keeps no record of having finished, so the driver may call it at any    *)
(* time, also after it has returned a terminal outcome.                    *)
(***************************************************************************)
EXTENDS Integers, Sequences, FiniteSets, TLC

\* ------------------------------------------------------------------ bounds

\* Progress steps (calls of ApiResult::poll) the driver takes on one result.
MaxPolls == 4
\* Body chunks the transport delivers for one response.
MaxChunks == 2
\* Nested calls of Display::fmt the stack has room for.
MaxFmtDepth == 3
\* Progress steps the driver takes on each of two results it drives together.
MaxPairPolls == 2

\* ------------------------------------------------------------ value spaces

\* The ApiResult instances a driver may hold.
Instances == {1, 2}

\* Status codes a service may answer with: 1xx, the edges of 2xx, 3xx, 4xx, 5xx.
StatusCodes == {100, 199, 200, 204, 299, 300, 302, 404, 500}

\* Causes of a hyper::Error.
Causes == {"dns", "reset"}

\* hyper::Chunk: a run of bytes, possibly empty.
Chunks == {<<>>, <<0>>, <<1>>}

Upd(f, i, v) == [f EXCEPT ![i] = v]

\* ---------------------------------------------------------------- results

\* futures::Poll<Item, Error>: Ok(Async::NotReady), Ok(Async::Ready(v)), Err(e);
\* Panic is a poll that unwinds instead of returning.
NotReady == [tag |-> "NotReady"]
Ready(v) == [tag |-> "Ready", val |-> v]
Err(e) == [tag |-> "Err", err |-> e]
Panic == [tag |-> "Panic"]

\* The ApiError a hyper::Error converts into (From::from in try_ready!).
TransportFailure(c) == [kind |-> "TransportFailure", cause |-> c]
\* ApiError::HttpError(status, resp).
HttpError(status, resp) == [kind |-> "StatusFailure", code |-> status, resp |-> resp]
\* The ApiError a Body Parser reports.
ParseFailure(buf) == [kind |-> "ParseFailure", cause |-> buf]

\* ------------------------------------------------------------------- state

VARIABLES
    live,        \* the instances that were constructed
    fr,          \* FutureResponse: "pending", "ready", "failed", "done"
    status,      \* status code of the response that arrived
    cause,       \* cause of the transport error that arrived
    arrived,     \* body chunks the transport has received, in order
    ended,       \* body source: "open", "eof", "error"
    body,        \* ApiResult.body: Option<Concat2<Body>>
    steps,       \* calls of ApiResult::poll so far
    last,        \* what the latest ApiResult::poll returned
    outcomes,    \* terminal outcomes ApiResult::poll has returned, in order
    guard,       \* what ApiResponse::poll resolved with, in order
    requests,    \* calls of Client::request for this result
    handles,     \* accumulation handles created (resp.body().concat2())
    innerPolls,  \* polls of the FutureResponse
    innerAgain,  \* polls of the FutureResponse after it completed
    bodyPolls,   \* polls of the accumulation handle
    bodyAgain,   \* polls of the accumulation handle after it completed
    parses,      \* buffers handed to ParseBody::parse_body, in order
    panicked,    \* a poll has unwound
    deField,     \* the struct field being deserialized: "status" or "addr_type"
    deInput,     \* the JSON value found for the field
    deResult,    \* what deserializing the field returned
    deLog,       \* messages written with warn!, in order
    logOn,       \* a logger enabled at the Warn level is installed
    enVariant,   \* the ServerStatus being formatted with Display
    enOut,       \* what Display::fmt wrote
    enDepth,     \* calls of Display::fmt nested inside the outermost one
    skKeys,      \* two ServerSortKeys being converted into strings
    skOut        \* what the two conversions returned

pipeVars == <<live, fr, status, cause, arrived, ended, body, steps, last, outcomes,
              guard, requests, handles, innerPolls, innerAgain, bodyPolls,
              bodyAgain, parses, panicked>>

enumVars == <<deField, deInput, deResult, deLog, logOn, enVariant, enOut, enDepth,
              skKeys, skOut>>

vars == <<pipeVars, enumVars>>

\* ApiResult.body = None.
NoBody == [some |-> FALSE, src |-> 0, buf |-> <<>>, taken |-> 0, done |-> FALSE]

\* The Raw Response of instance i: its status and its body source.
Response(i) == [status |-> status[i], source |-> i]

\* ------------------------------------------------------------- body parser

RECURSIVE Concat(_)
\* Concatenation of chunks in order (Concat2 extends one buffer chunk by chunk).
Concat(cs) == IF cs = <<>> THEN <<>> ELSE Head(cs) \o Concat(Tail(cs))

\* A Body Parser: a document is well-formed when it is not empty and is
\* closed by byte 1; the typed value is determined by the bytes.
ParseBody(buf) ==
    IF Len(buf) > 0 /\ buf[Len(buf)] = 1
    THEN [tag |-> "Ok", val |-> [typed |-> buf]]
    ELSE [tag |-> "Err", err |-> ParseFailure(buf)]

\* ------------------------------------------------------------ construction

\* ApiResult::new(client.request(request)) for every instance of `made`:
\* the request is submitted once, nothing has arrived, body is None.
Construct(made) ==
    /\ live = made
    /\ fr = [i \in Instances |-> "pending"]
    /\ status = [i \in Instances |-> 0]
    /\ cause = [i \in Instances |-> "none"]
    /\ arrived = [i \in Instances |-> <<>>]
    /\ ended = [i \in Instances |-> "open"]
    /\ body = [i \in Instances |-> NoBody]
    /\ steps = [i \in Instances |-> 0]
    /\ last = [i \in Instances |-> NotReady]
    /\ outcomes = [i \in Instances |-> <<>>]
    /\ guard = [i \in Instances |-> <<>>]
    /\ requests = [i \in Instances |-> IF i \in made THEN 1 ELSE 0]
    /\ handles = [i \in Instances |-> 0]
    /\ innerPolls = [i \in Instances |-> 0]
    /\ innerAgain = [i \in Instances |-> 0]
    /\ bodyPolls = [i \in Instances |-> 0]
    /\ bodyAgain = [i \in Instances |-> 0]
    /\ parses = [i \in Instances |-> <<>>]
    /\ panicked = [i \in Instances |-> FALSE]

\* No field is being deserialized.
NoValue == [t |-> "absent", s |-> ""]
NotDecoded == [tag |-> "none"]

EnumIdle ==
    /\ deField = "none"
    /\ deInput = NoValue
    /\ deResult = NotDecoded
    /\ deLog = <<>>
    /\ logOn = FALSE
    /\ enVariant = "none"
    /\ enOut = NotDecoded
    /\ enDepth = 0
    /\ skKeys = <<"none", "none">>
    /\ skOut = <<NotDecoded, NotDecoded>>

Init == Construct({1}) /\ EnumIdle

\* --------------------------------------------------------------- transport

\* The response head of instance i has arrived.
HasResponse(i) == fr[i] \in {"ready", "done"} /\ status[i] # 0

\* The response head arrives with some status code.
Respond(i) ==
    /\ i \in live
    /\ fr[i] = "pending"
    /\ \E s \in StatusCodes : status' = Upd(status, i, s)
    /\ fr' = Upd(fr, i, "ready")
    /\ UNCHANGED enumVars
    /\ UNCHANGED <<live, cause, arrived, ended, body, steps, last, outcomes, guard,
                   requests, handles, innerPolls, innerAgain, bodyPolls, bodyAgain,
                   parses, panicked>>

\* The network operation fails (connection, DNS, TLS) before any response.
TransportFails(i) ==
    /\ i \in live
    /\ fr[i] = "pending"
    /\ \E c \in Causes : cause' = Upd(cause, i, c)
    /\ fr' = Upd(fr, i, "failed")
    /\ UNCHANGED enumVars
    /\ UNCHANGED <<live, status, arrived, ended, body, steps, last, outcomes, guard,
                   requests, handles, innerPolls, innerAgain, bodyPolls, bodyAgain,
                   parses, panicked>>

\* One more chunk of the body arrives.
ChunkArrives(i) ==
    /\ i \in live
    /\ HasResponse(i)
    /\ ended[i] = "open"
    /\ Len(arrived[i]) < MaxChunks
    /\ \E ch \in Chunks : arrived' = Upd(arrived, i, Append(arrived[i], ch))
    /\ UNCHANGED enumVars
    /\ UNCHANGED <<live, fr, status, cause, ended, body, steps, last, outcomes, guard,
                   requests, handles, innerPolls, innerAgain, bodyPolls, bodyAgain,
                   parses, panicked>>

\* The body source is exhausted.
BodyEnds(i) ==
    /\ i \in live
    /\ HasResponse(i)
    /\ ended[i] = "open"
    /\ ended' = Upd(ended, i, "eof")
    /\ UNCHANGED enumVars
    /\ UNCHANGED <<live, fr, status, cause, arrived, body, steps, last, outcomes, guard,
                   requests, handles, innerPolls, innerAgain, bodyPolls, bodyAgain,
                   parses, panicked>>

\* The connection breaks while the body is in flight.
BodyFails(i) ==
    /\ i \in live
    /\ HasResponse(i)
    /\ ended[i] = "open"
    /\ \E c \in Causes : cause' = Upd(cause, i, c)
    /\ ended' = Upd(ended, i, "error")
    /\ UNCHANGED enumVars
    /\ UNCHANGED <<live, fr, status, arrived, body, steps, last, outcomes, guard,
                   requests, handles, innerPolls, innerAgain, bodyPolls, bodyAgain,
                   parses, panicked>>

\* What a future of the transport may do when it is polled again after it has
\* completed: the Future contract leaves it open (suspend, fail, unwind); it
\* cannot yield its item again, which was moved out.
AfterCompletion == {NotReady, Panic} \cup {Err(c) : c \in Causes}

\* The behaviours to consider for a poll of a transport future: all of
\* AfterCompletion when it has completed, and otherwise none of them matters.
Unspecified(completed) == IF completed THEN AfterCompletion ELSE {NotReady}

\* Variant of FuturePoll: a request that is still in flight is given up.
FuturePollImpatient(i, u) ==
    CASE fr[i] = "pending" -> Err("reset")
      [] fr[i] = "ready" -> Ready(Response(i))
      [] fr[i] = "failed" -> Err(cause[i])
      [] fr[i] = "done" -> u

\* self.0.poll(): the FutureResponse of instance i.
FuturePoll(i, u) ==
    CASE fr[i] = "pending" -> NotReady
      [] fr[i] = "ready" -> Ready(Response(i))
      [] fr[i] = "failed" -> Err(cause[i])
      [] fr[i] = "done" -> u

\* Variant of NewConcat: every handle reads the body source of the first
\* instance.
NewConcatShared(resp) ==
    [some |-> TRUE, src |-> 1, buf |-> <<>>, taken |-> 0, done |-> FALSE]

\* resp.body().concat2(): a handle on the body source of resp, nothing
\* accumulated yet.
NewConcat(resp) ==
    [some |-> TRUE, src |-> resp.source, buf |-> <<>>, taken |-> 0, done |-> FALSE]

\* Variant of Concat2Poll: the body stream polled without concat2, completing
\* with the first chunk alone.
FirstChunkPoll(h, v) ==
    IF h.done THEN [res |-> v, h |-> h]
    ELSE LET all == arrived[h.src]
         IN  IF Len(all) > h.taken
             THEN [res |-> Ready(all[h.taken + 1]),
                   h |-> [h EXCEPT !.buf = all[h.taken + 1], !.taken = h.taken + 1,
                                   !.done = TRUE]]
             ELSE CASE ended[h.src] = "open" -> [res |-> NotReady, h |-> h]
                    [] ended[h.src] = "eof" ->
                         [res |-> Ready(<<>>), h |-> [h EXCEPT !.done = TRUE]]
                    [] ended[h.src] = "error" ->
                         [res |-> Err(cause[h.src]), h |-> [h EXCEPT !.done = TRUE]]

\* maybe_body.poll(): Concat2 takes every chunk that has arrived, appends it
\* to its buffer, and completes when the source ends.
Concat2Poll(h, v) ==
    IF h.done THEN [res |-> v, h |-> h]
    ELSE LET all == arrived[h.src]
             buf == h.buf \o Concat(SubSeq(all, h.taken + 1, Len(all)))
             h1 == [h EXCEPT !.buf = buf, !.taken = Len(all)]
         IN  CASE ended[h.src] = "open" -> [res |-> NotReady, h |-> h1]
               [] ended[h.src] = "eof" ->
                    [res |-> Ready(buf), h |-> [h1 EXCEPT !.done = TRUE]]
               [] ended[h.src] = "error" ->
                    [res |-> Err(cause[h.src]), h |-> [h1 EXCEPT !.done = TRUE]]

\* ------------------------------------------------------------ ApiResponse

\* Variant of is_success: redirects count as success.
is_success_or_redirect(s) == s >= 200 /\ s <= 399

\* Variant of is_success: only 200 OK counts as success.
is_success_only_200(s) == s = 200

\* StatusCode::is_success.
is_success(s) == s >= 200 /\ s <= 299

\* Variant of GuardStatus: the status is not validated.
GuardStatusUnchecked(resp) == Ready(resp)

\* ApiResponse::poll once the FutureResponse is ready with resp.
GuardStatus(resp) ==
    IF is_success(resp.status)
    THEN Ready(resp)
    ELSE Err(HttpError(resp.status, resp))

\* Variant of ApiResponsePoll: a transport error is swallowed and the caller
\* is told to wait.
ApiResponsePollSwallow(i, u) ==
    LET r == FuturePoll(i, u)
    IN  CASE r.tag = "NotReady" -> NotReady
          [] r.tag = "Panic" -> Panic
          [] r.tag = "Err" -> NotReady
          [] r.tag = "Ready" -> GuardStatus(r.val)

\* ApiResponse::poll.
ApiResponsePoll(i, u) ==
    LET r == FuturePoll(i, u)
    IN  CASE r.tag = "NotReady" -> NotReady
          [] r.tag = "Panic" -> Panic
          [] r.tag = "Err" -> Err(TransportFailure(r.err))
          [] r.tag = "Ready" -> GuardStatus(r.val)

\* -------------------------------------------------------------- ApiResult

\* Variant of BodyIsNone: the cached handle is not looked at.
BodyIsNoneAlways(i) == TRUE

\* self.body.is_none().
BodyIsNone(i) == ~body[i].some

\* ParseBody::parse_body(&chunk).map(Async::Ready); `parsed` lists the buffers
\* the parser was given.
ParseStep(buf) ==
    LET p == ParseBody(buf)
    IN  [ret |-> IF p.tag = "Ok" THEN Ready(p.val) ELSE Err(p.err),
         parsed |-> <<buf>>]

\* Variant of BodyStep: the parser is tried on whatever has accumulated so far.
BodyStepEager(c) ==
    CASE c.res.tag = "NotReady" ->
           IF c.h.buf # <<>> THEN ParseStep(c.h.buf)
           ELSE [ret |-> NotReady, parsed |-> <<>>]
      [] c.res.tag = "Panic" -> [ret |-> Panic, parsed |-> <<>>]
      [] c.res.tag = "Err" -> [ret |-> Err(TransportFailure(c.res.err)), parsed |-> <<>>]
      [] c.res.tag = "Ready" -> ParseStep(c.res.val)

\* The tail of ApiResult::poll: try_ready!(maybe_body.poll()), then parse.
BodyStep(c) ==
    CASE c.res.tag = "NotReady" -> [ret |-> NotReady, parsed |-> <<>>]
      [] c.res.tag = "Panic" -> [ret |-> Panic, parsed |-> <<>>]
      [] c.res.tag = "Err" -> [ret |-> Err(TransportFailure(c.res.err)), parsed |-> <<>>]
      [] c.res.tag = "Ready" -> ParseStep(c.res.val)

\* Variant of ReachesBody: the step that creates the handle returns without
\* polling it.
ReachesBodyNextStep(first, g) == ~first

\* ApiResult::poll gets to maybe_body.poll(): the handle was there already, or
\* try_ready!(self.inner.poll()) has just yielded the response.
ReachesBody(first, g) == ~first \/ g.tag = "Ready"

\* ApiResult::poll: one progress step of instance i.
Poll(i) ==
    /\ i \in live
    /\ ~panicked[i]
    /\ steps[i] < MaxPolls
    /\ \E u \in Unspecified(fr[i] = "done"), v \in Unspecified(body[i].done) :
         LET first == BodyIsNone(i)
             g == ApiResponsePoll(i, u)
             creates == first /\ g.tag = "Ready"
             toBody == ReachesBody(first, g)
             h0 == IF first THEN NewConcat(g.val) ELSE body[i]
             c == Concat2Poll(h0, v)
             b == BodyStep(c)
             ret == IF toBody THEN b.ret ELSE IF creates THEN NotReady ELSE g
             terminal == ret.tag \in {"Ready", "Err"}
         IN  /\ fr' = IF first /\ fr[i] \in {"ready", "failed"}
                      THEN Upd(fr, i, "done") ELSE fr
             /\ innerPolls' = IF first THEN Upd(innerPolls, i, innerPolls[i] + 1)
                              ELSE innerPolls
             /\ innerAgain' = IF first /\ fr[i] = "done"
                              THEN Upd(innerAgain, i, innerAgain[i] + 1)
                              ELSE innerAgain
             /\ guard' = IF first /\ g.tag \in {"Ready", "Err"}
                         THEN Upd(guard, i, Append(guard[i], g)) ELSE guard
             /\ handles' = IF creates THEN Upd(handles, i, handles[i] + 1)
                           ELSE handles
             /\ body' = IF toBody THEN Upd(body, i, c.h)
                        ELSE IF creates THEN Upd(body, i, h0) ELSE body
             /\ bodyPolls' = IF toBody THEN Upd(bodyPolls, i, bodyPolls[i] + 1)
                             ELSE bodyPolls
             /\ bodyAgain' = IF toBody /\ h0.done
                             THEN Upd(bodyAgain, i, bodyAgain[i] + 1)
                             ELSE bodyAgain
             /\ parses' = IF toBody THEN Upd(parses, i, parses[i] \o b.parsed)
                          ELSE parses
             /\ outcomes' = IF terminal THEN Upd(outcomes, i, Append(outcomes[i], ret))
                            ELSE outcomes
             /\ panicked' = Upd(panicked, i, ret.tag = "Panic")
             /\ last' = Upd(last, i, ret)
             /\ steps' = Upd(steps, i, steps[i] + 1)
    /\ UNCHANGED enumVars
    /\ UNCHANGED <<live, status, cause, arrived, ended, requests>>

Next ==
    \E i \in Instances :
        \/ Respond(i)
        \/ TransportFails(i)
        \/ ChunkArrives(i)
        \/ BodyEnds(i)
        \/ BodyFails(i)
        \/ Poll(i)

Spec == Init /\ [][Next]_vars

\* ------------------------------------------------------------ two results

\* One success and one failure status, for the specifications that do not
\* range over every status code.
PairStatuses == {200, 404}

\* The response head arrives with a status code of S.
RespondIn(i, S) ==
    /\ i \in live
    /\ fr[i] = "pending"
    /\ \E s \in S : status' = Upd(status, i, s)
    /\ fr' = Upd(fr, i, "ready")
    /\ UNCHANGED enumVars
    /\ UNCHANGED <<live, cause, arrived, ended, body, steps, last, outcomes, guard,
                   requests, handles, innerPolls, innerAgain, bodyPolls, bodyAgain,
                   parses, panicked>>

\* One more chunk of the body arrives; the bytes of a body tell which
\* response it belongs to: 0 for instance 1, 1 for instance 2.
OwnChunkArrives(i) ==
    /\ i \in live
    /\ HasResponse(i)
    /\ ended[i] = "open"
    /\ Len(arrived[i]) < MaxChunks
    /\ arrived' = Upd(arrived, i, Append(arrived[i], <<i - 1>>))
    /\ UNCHANGED enumVars
    /\ UNCHANGED <<live, fr, status, cause, ended, body, steps, last, outcomes, guard,
                   requests, handles, innerPolls, innerAgain, bodyPolls, bodyAgain,
                   parses, panicked>>

\* A progress step of a driver that, like an executor, drops a result once it
\* has returned its outcome.
PollPending(i) ==
    /\ outcomes[i] = <<>>
    /\ Poll(i)

\* A progress step on one of two results driven together.
PollPair(i) ==
    /\ steps[i] < MaxPairPolls
    /\ PollPending(i)

\* Two results constructed from two requests and driven by one driver.
InitPair == Construct({1, 2}) /\ EnumIdle

NextPair ==
    \E i \in Instances :
        \/ RespondIn(i, PairStatuses)
        \/ TransportFails(i)
        \/ OwnChunkArrives(i)
        \/ BodyEnds(i)
        \/ BodyFails(i)
        \/ PollPair(i)

SpecPair == InitPair /\ [][NextPair]_vars

\* ------------------------------------------------- a driver that keeps going

NextFair ==
    \E i \in Instances :
        \/ RespondIn(i, PairStatuses)
        \/ TransportFails(i)
        \/ ChunkArrives(i)
        \/ BodyEnds(i)
        \/ BodyFails(i)
        \/ PollPending(i)

\* One result whose driver keeps taking progress steps until it has the
\* outcome.
SpecFair == Init /\ [][NextFair]_vars /\ WF_vars(PollPending(1))

\* ==================================================== enumeration decoding

\* Wire strings a service may send, recognised or not (matching is exact, so
\* case and surrounding text matter).
WireStrings ==
    {"ACTIVE", "BUILD", "DELETED", "ERROR", "HARD_REBOOT", "MIGRATING", "PAUSED",
     "REBOOT", "RESIZE", "REVERT_RESIZE", "SHUTOFF", "SUSPENDED", "RESCUE",
     "SHELVED", "SHELVED_OFFLOADED", "SOFT_DELETED", "PASSWORD", "VERIFY_RESIZE",
     "fixed", "floating",
     "", "active", "Error", "TOTALLY_NEW_STATE", "UNKNOWN", "<UNKNOWN>",
     "FIXED", "Floating", "fixed "}

\* JSON values a field may hold: a string, a number, null, or no value at all.
JsonValues ==
    {[t |-> "string", s |-> w] : w \in WireStrings}
        \cup {[t |-> "number", s |-> ""], [t |-> "null", s |-> ""], NoValue}

Ok(v) == [tag |-> "Ok", val |-> v]
\* The D::Error of String::deserialize on a value that is not a string.
DeError == [tag |-> "Err"]

\* impl Default for ServerStatus.
DefaultServerStatus == "Unknown"

\* impl Default for AddressType.
DefaultAddressType == "Unknown"

\* de_address_type: [res, warned], warned the messages it logs.
de_address_type(v) ==
    IF v.t # "string" THEN [res |-> DeError, warned |-> <<>>]
    ELSE [res |-> Ok(CASE v.s = "fixed" -> "Fixed"
                       [] v.s = "floating" -> "Floating"
                       [] OTHER -> DefaultAddressType),
          warned |-> <<>>]

\* The match of de_server_status on the wire string.
ServerStatusOf(s) ==
    CASE s = "ACTIVE" -> "Active"
      [] s = "BUILD" -> "Building"
      [] s = "DELETED" -> "Deleted"
      [] s = "ERROR" -> "Error"
      [] s = "HARD_REBOOT" -> "HardRebooting"
      [] s = "MIGRATING" -> "Migrating"
      [] s = "PAUSED" -> "Paused"
      [] s = "REBOOT" -> "Rebooting"
      [] s = "RESIZE" -> "Resizing"
      [] s = "REVERT_RESIZE" -> "RevertingResize"
      [] s = "SHUTOFF" -> "ShutOff"
      [] s = "SUSPENDED" -> "Suspended"
      [] s = "RESCUE" -> "Rescuing"
      [] s = "SHELVED" -> "Shelved"
      [] s = "SHELVED_OFFLOADED" -> "ShelvedOffloaded"
      [] s = "SOFT_DELETED" -> "SoftDeleted"
      [] s = "PASSWORD" -> "UpdatingPassword"
      [] s = "VERIFY_RESIZE" -> "VerifyingResize"
      [] OTHER -> DefaultServerStatus

\* The strings de_server_status has an arm for.
StatusArms ==
    {"ACTIVE", "BUILD", "DELETED", "ERROR", "HARD_REBOOT", "MIGRATING", "PAUSED",
     "REBOOT", "RESIZE", "REVERT_RESIZE", "SHUTOFF", "SUSPENDED", "RESCUE",
     "SHELVED", "SHELVED_OFFLOADED", "SOFT_DELETED", "PASSWORD", "VERIFY_RESIZE"}

\* Variant of de_server_status: a string without an arm fails the
\* deserialization, as a derived Deserialize would.
de_server_status_strict(v) ==
    IF v.t # "string" \/ v.s \notin StatusArms
    THEN [res |-> DeError, warned |-> <<>>]
    ELSE [res |-> Ok(ServerStatusOf(v.s)), warned |-> <<>>]

\* de_server_status: [res, warned]; the fallback arm logs a warning.
de_server_status(v) ==
    IF v.t # "string" THEN [res |-> DeError, warned |-> <<>>]
    ELSE [res |-> Ok(ServerStatusOf(v.s)),
          warned |-> IF v.s \in StatusArms THEN <<>>
                     ELSE << <<"Got unknown server status", v.s>> >>]

\* Deserializing Server.status: #[serde(deserialize_with = "de_server_status",
\* default)]: a missing field takes Default::default().
DeserializeStatus ==
    /\ deField = "status"
    /\ deResult = NotDecoded
    /\ LET d == IF deInput = NoValue
                THEN [res |-> Ok(DefaultServerStatus), warned |-> <<>>]
                ELSE de_server_status(deInput)
       IN  /\ deResult' = d.res
           /\ deLog' = deLog \o d.warned
    /\ UNCHANGED <<deField, deInput, logOn, enVariant, enOut, enDepth, skKeys, skOut>>
    /\ UNCHANGED pipeVars

\* Deserializing ServerAddress.addr_type: #[serde(rename = "OS-EXT-IPS:type",
\* default, deserialize_with = "de_address_type")].
DeserializeAddrType ==
    /\ deField = "addr_type"
    /\ deResult = NotDecoded
    /\ LET d == IF deInput = NoValue
                THEN [res |-> Ok(DefaultAddressType), warned |-> <<>>]
                ELSE de_address_type(deInput)
       IN  /\ deResult' = d.res
           /\ deLog' = deLog \o d.warned
    /\ UNCHANGED <<deField, deInput, logOn, enVariant, enOut, enDepth, skKeys, skOut>>
    /\ UNCHANGED pipeVars

\* ---------------------------------------------------- enumeration encoding

\* enum ServerStatus, every declared variant.
ServerStatuses ==
    {"Active", "Building", "Deleted", "Error", "HardRebooting", "Migrating",
     "Paused", "Rebooting", "Resizing", "RevertingResize", "ShutOff", "Suspended",
     "Rescuing", "Shelved", "ShelvedOffloaded", "SoftDeleted", "Unknown",
     "UpdatingPassword", "VerifyingResize", "__Nonexhaustive"}

\* The variants Display for ServerStatus has an arm for.
DisplayArms ==
    {"Active", "Building", "Deleted", "Error", "HardRebooting", "Migrating",
     "Paused", "Rebooting", "Resizing", "RevertingResize", "ShutOff", "Suspended",
     "Rescuing", "Shelved", "ShelvedOffloaded", "SoftDeleted", "UpdatingPassword",
     "VerifyingResize"}

\* Variant of ServerStatusDisplay: Building is written with the name of the
\* variant instead of its wire string.
ServerStatusDisplayBuilding(v) ==
    CASE v = "Active" -> "ACTIVE"
      [] v = "Building" -> "BUILDING"
      [] v = "Deleted" -> "DELETED"
      [] v = "Error" -> "ERROR"
      [] v = "HardRebooting" -> "HARD_REBOOT"
      [] v = "Migrating" -> "MIGRATING"
      [] v = "Paused" -> "PAUSED"
      [] v = "Rebooting" -> "REBOOT"
      [] v = "Resizing" -> "RESIZE"
      [] v = "RevertingResize" -> "REVERT_RESIZE"
      [] v = "ShutOff" -> "SHUTOFF"
      [] v = "Suspended" -> "SUSPENDED"
      [] v = "Rescuing" -> "RESCUE"
      [] v = "Shelved" -> "SHELVED"
      [] v = "ShelvedOffloaded" -> "SHELVED_OFFLOADED"
      [] v = "SoftDeleted" -> "SOFT_DELETED"
      [] v = "UpdatingPassword" -> "PASSWORD"
      [] v = "VerifyingResize" -> "VERIFY_RESIZE"
      [] OTHER -> "<UNKNOWN>"

\* The match of Display for ServerStatus: the string s that is written.
ServerStatusDisplay(v) ==
    CASE v = "Active" -> "ACTIVE"
      [] v = "Building" -> "BUILD"
      [] v = "Deleted" -> "DELETED"
      [] v = "Error" -> "ERROR"
      [] v = "HardRebooting" -> "HARD_REBOOT"
      [] v = "Migrating" -> "MIGRATING"
      [] v = "Paused" -> "PAUSED"
      [] v = "Rebooting" -> "REBOOT"
      [] v = "Resizing" -> "RESIZE"
      [] v = "RevertingResize" -> "REVERT_RESIZE"
      [] v = "ShutOff" -> "SHUTOFF"
      [] v = "Suspended" -> "SUSPENDED"
      [] v = "Rescuing" -> "RESCUE"
      [] v = "Shelved" -> "SHELVED"
      [] v = "ShelvedOffloaded" -> "SHELVED_OFFLOADED"
      [] v = "SoftDeleted" -> "SOFT_DELETED"
      [] v = "UpdatingPassword" -> "PASSWORD"
      [] v = "VerifyingResize" -> "VERIFY_RESIZE"
      [] OTHER -> "<UNKNOWN>"

\* The process dies of a stack overflow.
StackOverflow == [tag |-> "StackOverflow"]

\* One call of Display::fmt for enVariant.  An arm writes its string.  The
\* fallback arm runs warn!("Unknown server status {}", status): when a logger
\* takes the record, its argument is formatted, which is Display::fmt for the
\* same status again; when none does, "<UNKNOWN>" is written.
DisplayFmt ==
    /\ enVariant # "none"
    /\ enOut = NotDecoded
    /\ IF enVariant \in DisplayArms
       THEN /\ enOut' = Ok(ServerStatusDisplay(enVariant))
            /\ UNCHANGED <<enDepth, deLog>>
       ELSE /\ deLog' = Append(deLog, <<"Unknown server status", enVariant>>)
            /\ IF logOn
               THEN IF enDepth < MaxFmtDepth
                    THEN enDepth' = enDepth + 1 /\ enOut' = enOut
                    ELSE enOut' = StackOverflow /\ enDepth' = enDepth
               ELSE enOut' = Ok(ServerStatusDisplay(enVariant)) /\ enDepth' = enDepth
    /\ UNCHANGED <<deField, deInput, deResult, logOn, enVariant, skKeys, skOut>>
    /\ UNCHANGED pipeVars

\* The status a server record was deserialized with is formatted.
FormatDecoded ==
    /\ deField = "status"
    /\ deResult # NotDecoded
    /\ deResult.tag = "Ok"
    /\ enVariant = "none"
    /\ enVariant' = deResult.val
    /\ UNCHANGED <<deField, deInput, deResult, deLog, logOn, enOut, enDepth, skKeys,
                   skOut>>
    /\ UNCHANGED pipeVars

\* The string Display wrote is deserialized as a server status again.
DecodeBack ==
    /\ deField = "display"
    /\ enOut # NotDecoded
    /\ enOut.tag = "Ok"
    /\ deResult = NotDecoded
    /\ LET v == [t |-> "string", s |-> enOut.val]
           d == de_server_status(v)
       IN  /\ deInput' = v
           /\ deResult' = d.res
           /\ deLog' = deLog \o d.warned
    /\ UNCHANGED <<deField, logOn, enVariant, enOut, enDepth, skKeys, skOut>>
    /\ UNCHANGED pipeVars

\* enum ServerSortKey, every declared variant.
SortKeys ==
    {"AccessIpv4", "AccessIpv6", "AutoDiskConfig", "AvailabilityZone", "ConfigDrive",
     "CreatedAt", "DisplayDescription", "DisplayName", "Host", "HostName", "ImageRef",
     "InstanceTypeId", "KernelId", "KeyName", "LaunchIndex", "LaunchedAt", "LockedBy",
     "Node", "PowerState", "Progress", "ProjectId", "RamdiskId", "RootDeviceName",
     "TaskState", "TerminatedAt", "UpdatedAt", "UserId", "Uuid", "VmState",
     "__Nonexhaustive"}

\* The match of Into<String> for ServerSortKey without its last arm.
SortKeyArm(k) ==
    CASE k = "AccessIpv4" -> "access_ip_v4"
      [] k = "AccessIpv6" -> "access_ip_v6"
      [] k = "AutoDiskConfig" -> "auto_disk_config"
      [] k = "AvailabilityZone" -> "availability_zone"
      [] k = "ConfigDrive" -> "config_drive"
      [] k = "CreatedAt" -> "created_at"
      [] k = "DisplayDescription" -> "display_description"
      [] k = "DisplayName" -> "display_name"
      [] k = "Host" -> "host"
      [] k = "HostName" -> "hostname"
      [] k = "ImageRef" -> "image_ref"
      [] k = "InstanceTypeId" -> "instance_type_id"
      [] k = "KernelId" -> "kernel_id"
      [] k = "KeyName" -> "key_name"
      [] k = "LaunchIndex" -> "launch_index"
      [] k = "LaunchedAt" -> "launched_at"
      [] k = "LockedBy" -> "locked_by"
      [] k = "Node" -> "node"
      [] k = "PowerState" -> "power_state"
      [] k = "Progress" -> "progress"
      [] k = "ProjectId" -> "project_id"
      [] k = "RamdiskId" -> "ramdisk_id"
      [] k = "RootDeviceName" -> "root_device_name"
      [] k = "TaskState" -> "task_state"
      [] k = "TerminatedAt" -> "terminated_at"
      [] k = "UpdatedAt" -> "updated_at"
      [] k = "UserId" -> "user_id"
      [] k = "Uuid" -> "uuid"
      [] k = "VmState" -> "vm_state"

\* Variant of SortKeyInto: HostName is written like Host.
SortKeyIntoHost(k) ==
    IF k = "__Nonexhaustive" THEN Panic
    ELSE IF k = "HostName" THEN Ok("host")
    ELSE Ok(SortKeyArm(k))

\* Into<String> for ServerSortKey; the last arm is unreachable!().
SortKeyInto(k) ==
    IF k = "__Nonexhaustive" THEN Panic ELSE Ok(SortKeyArm(k))

\* Two sort keys are converted into their strings.
EncodeSortKeys ==
    /\ deField = "sort_key"
    /\ skOut = <<NotDecoded, NotDecoded>>
    /\ skOut' = <<SortKeyInto(skKeys[1]), SortKeyInto(skKeys[2])>>
    /\ UNCHANGED <<deField, deInput, deResult, deLog, logOn, enVariant, enOut, enDepth,
                   skKeys>>
    /\ UNCHANGED pipeVars

\* A field of a response document about to be deserialized, a server status
\* about to be formatted, or two sort keys about to be converted; no request
\* is in flight.
InitEnum ==
    /\ Construct({})
    /\ deResult = NotDecoded
    /\ deLog = <<>>
    /\ enOut = NotDecoded
    /\ enDepth = 0
    /\ skOut = <<NotDecoded, NotDecoded>>
    /\ \/ /\ deField \in {"status", "addr_type"}
          /\ deInput \in JsonValues
          /\ logOn \in BOOLEAN
          /\ enVariant = "none"
          /\ skKeys = <<"none", "none">>
       \/ /\ deField = "display"
          /\ deInput = NoValue
          /\ logOn \in BOOLEAN
          /\ enVariant \in ServerStatuses
          /\ skKeys = <<"none", "none">>
       \/ /\ deField = "sort_key"
          /\ deInput = NoValue
          /\ logOn = FALSE
          /\ enVariant = "none"
          /\ skKeys \in SortKeys \X SortKeys

NextEnum ==
    \/ DeserializeStatus
    \/ DeserializeAddrType
    \/ FormatDecoded
    \/ DisplayFmt
    \/ DecodeBack
    \/ EncodeSortKeys

SpecEnum == InitEnum /\ [][NextEnum]_vars

\* ================================================================ properties

\* The status code of instance i is outside 200-299.
NonSuccess(i) == status[i] < 200 \/ status[i] > 299

\* What the parser's verdict on buf looks like to the caller of ApiResult::poll.
Delivered(buf) ==
    IF ParseBody(buf).tag = "Ok" THEN Ready(ParseBody(buf).val)
    ELSE Err(ParseBody(buf).err)

\* C1: for a response whose status code is outside 200-299 the first terminal
\* outcome of the result is the StatusFailure carrying that code, and in every
\* state of that request the parser has not been invoked, no accumulation
\* handle exists and the body source has never been polled.
C1_NonSuccessNeverReadsBody ==
    \A i \in live :
        (HasResponse(i) /\ NonSuccess(i)) =>
            /\ parses[i] = <<>>
            /\ bodyPolls[i] = 0
            /\ handles[i] = 0
            /\ ~body[i].some
            /\ fr[i] = "done" =>
                 /\ outcomes[i] # <<>>
                 /\ outcomes[i][1] = Err(HttpError(status[i], Response(i)))

\* A 500 response whose whole body has arrived, polled past its StatusFailure.
C1_Witness ==
    /\ status[1] = 500
    /\ arrived[1] # <<>>
    /\ ended[1] = "eof"
    /\ steps[1] >= 2
    /\ outcomes[1] # <<>>
    /\ outcomes[1][1].tag = "Err"
    /\ outcomes[1][1].err.kind = "StatusFailure"
    /\ outcomes[1][1].err.code = 500

\* C2: once the body accumulation has completed, no later progress step polls
\* the accumulation handle (and through it the body source) again.
C2_BodyNotPolledAfterCompletion ==
    \A i \in live : bodyAgain[i] = 0

\* C3: the caller is delivered at most one terminal outcome per result; a
\* progress step that unwinds counts as a delivery, since the caller sees it.
C3_AtMostOneOutcome ==
    \A i \in live : Len(outcomes[i]) + (IF panicked[i] THEN 1 ELSE 0) <= 1

\* C4: after the FutureResponse has completed, with a response or with an
\* error, no later progress step polls it again.
C4_InnerNotPolledAfterCompletion ==
    \A i \in live : innerAgain[i] = 0

\* C5: the accumulation handle exists, and the body source has been polled,
\* only after the guard has resolved with the response and a 2xx status.
C5_StatusBeforeBody ==
    \A i \in live :
        (bodyPolls[i] > 0 \/ handles[i] > 0 \/ body[i].some) =>
            /\ fr[i] = "done"
            /\ status[i] >= 200 /\ status[i] <= 299
            /\ guard[i] # <<>>
            /\ guard[i][1] = Ready(Response(i))

\* A 204 response whose body source was polled in two progress steps.
C5_Witness ==
    /\ status[1] = 204
    /\ bodyPolls[1] >= 2
    /\ guard[1] = <<Ready(Response(1))>>

\* C6: the parser is invoked at most once, only once the body source has
\* signalled exhaustion, and on the whole body.
C6_ParseOnceOnWholeBody ==
    \A i \in live :
        /\ Len(parses[i]) <= 1
        /\ parses[i] # <<>> =>
             /\ body[i].done
             /\ ended[i] = "eof"
             /\ parses[i][1] = Concat(arrived[i])

\* A two-chunk body accumulated over several polls, parsed, and the result
\* polled again afterwards.
C6_Witness ==
    /\ Len(parses[1]) = 1
    /\ Len(arrived[1]) = 2
    /\ arrived[1][1] # <<>>
    /\ bodyPolls[1] >= 3
    /\ bodyAgain[1] >= 1

\* C7: once the in-flight operation has completed with a response, the guard
\* has resolved with that response unchanged exactly when its status is in
\* 200-299 and with HttpError(same code, same response) for every other code;
\* before that it has resolved with nothing.
C7_GuardByStatus ==
    \A i \in live :
        /\ fr[i] \in {"pending", "ready"} => guard[i] = <<>>
        /\ (fr[i] = "done" /\ status[i] # 0) =>
             /\ guard[i] # <<>>
             /\ guard[i][1] = IF status[i] >= 200 /\ status[i] <= 299
                              THEN Ready(Response(i))
                              ELSE Err(HttpError(status[i], Response(i)))

\* A redirect resolved as a failure carrying 302.
C7_Witness ==
    /\ status[1] = 302
    /\ fr[1] = "done"
    /\ guard[1] # <<>>
    /\ guard[1][1].tag = "Err"
    /\ guard[1][1].err.code = 302

\* C8: when the transport operation fails, the first terminal outcome is the
\* TransportFailure of that cause; the request was submitted once, no
\* accumulation handle was created, the body source was never polled and the
\* parser never invoked.
C8_TransportFailureSurfaced ==
    \A i \in live :
        (status[i] = 0 /\ fr[i] \in {"failed", "done"}) =>
            /\ requests[i] = 1
            /\ handles[i] = 0
            /\ ~body[i].some
            /\ bodyPolls[i] = 0
            /\ parses[i] = <<>>
            /\ fr[i] = "done" =>
                 /\ outcomes[i] # <<>>
                 /\ outcomes[i][1] = Err(TransportFailure(cause[i]))

\* A DNS failure delivered to the caller, and the result polled again.
C8_Witness ==
    /\ status[1] = 0
    /\ fr[1] = "done"
    /\ cause[1] = "dns"
    /\ steps[1] >= 2
    /\ outcomes[1] # <<>>
    /\ outcomes[1][1] = Err(TransportFailure("dns"))

\* C9: for a 2xx response whose body source has ended, the first terminal
\* outcome is the parser's verdict on the concatenation of all chunks in the
\* order they arrived.
C9_OutcomeIsParseOfWholeBody ==
    \A i \in live :
        (body[i].done /\ ended[i] = "eof") =>
            /\ outcomes[i] # <<>>
            /\ outcomes[i][1] = Delivered(Concat(arrived[i]))

\* Chunks <<0>> and <<1>> taken in different polls and parsed to a value.
C9_Witness ==
    /\ arrived[1] = << <<0>>, <<1>> >>
    /\ bodyPolls[1] >= 2
    /\ outcomes[1] # <<>>
    /\ outcomes[1][1] = Ready([typed |-> <<0, 1>>])

\* The wire strings of the server status and the variant each stands for.
StatusWire ==
    {<<"ACTIVE", "Active">>, <<"BUILD", "Building">>, <<"DELETED", "Deleted">>,
     <<"ERROR", "Error">>, <<"HARD_REBOOT", "HardRebooting">>,
     <<"MIGRATING", "Migrating">>, <<"PAUSED", "Paused">>, <<"REBOOT", "Rebooting">>,
     <<"RESIZE", "Resizing">>, <<"REVERT_RESIZE", "RevertingResize">>,
     <<"SHUTOFF", "ShutOff">>, <<"SUSPENDED", "Suspended">>, <<"RESCUE", "Rescuing">>,
     <<"SHELVED", "Shelved">>, <<"SHELVED_OFFLOADED", "ShelvedOffloaded">>,
     <<"SOFT_DELETED", "SoftDeleted">>, <<"PASSWORD", "UpdatingPassword">>,
     <<"VERIFY_RESIZE", "VerifyingResize">>}

\* The wire strings of the address type and the variant each stands for.
AddrTypeWire == {<<"fixed", "Fixed">>, <<"floating", "Floating">>}

\* The variant the wire table `wire` gives string s, Unknown when it has none.
Expected(wire, s) ==
    IF \E p \in wire : p[1] = s
    THEN (CHOOSE p \in wire : p[1] = s)[2]
    ELSE "Unknown"

\* C10: deserializing an enumeration field from any string succeeds; a
\* recognised wire string yields its own variant and every other string
\* yields Unknown, for the server status and for the address type.
C10_UnknownStringsDecodeToUnknown ==
    (deResult # NotDecoded /\ deInput.t = "string") =>
        /\ deResult.tag = "Ok"
        /\ deField = "status" => deResult.val = Expected(StatusWire, deInput.s)
        /\ deField = "addr_type" => deResult.val = Expected(AddrTypeWire, deInput.s)

\* The status string "TOTALLY_NEW_STATE" decoded to Unknown.
C10_Witness ==
    /\ deField = "status"
    /\ deInput = [t |-> "string", s |-> "TOTALLY_NEW_STATE"]
    /\ deResult = Ok("Unknown")

\* The wire table `wire` has an entry for string s.
Recognised(wire, s) == \E p \in wire : p[1] = s

\* C11: every decode of an unrecognised string, for the server status and for
\* the address type alike, writes a warning besides yielding Unknown.
C11_UnknownAlwaysLogged ==
    (/\ deField \in {"status", "addr_type"}
     /\ deResult # NotDecoded
     /\ deInput.t = "string"
     /\ ~Recognised(IF deField = "status" THEN StatusWire ELSE AddrTypeWire, deInput.s))
        => /\ deResult = Ok("Unknown")
           /\ deLog # <<>>

C18_DisplayReturns ==
    enOut # StackOverflow

\* C20: two different public sort keys never convert into the same string
\* (and each of the 29 converts into one), and the 18 strings
\* de_server_status has an arm for are exactly what Display writes for the
\* 18 variants it has an arm for: a recognised string that was decoded is
\* written back as itself, and what Display writes for such a variant is a
\* recognised string.
C20_EncodingsInjective ==
    /\ Cardinality(SortKeys \ {"__Nonexhaustive"}) = 29
    /\ Cardinality(StatusArms) = 18
    /\ Cardinality(DisplayArms) = 18
    /\ (deField = "sort_key" /\ skOut # <<NotDecoded, NotDecoded>>) =>
         /\ \A j \in {1, 2} : skKeys[j] # "__Nonexhaustive" => skOut[j].tag = "Ok"
         /\ (/\ skOut[1].tag = "Ok"
             /\ skOut[2].tag = "Ok"
             /\ skOut[1].val = skOut[2].val) => skKeys[1] = skKeys[2]
    /\ (/\ deField = "status"
        /\ deInput.t = "string"
        /\ deInput.s \in StatusArms
        /\ enVariant # "none") =>
         /\ enVariant \in DisplayArms
         /\ enOut # NotDecoded => enOut = Ok(deInput.s)
    /\ (deField = "display" /\ enVariant \in DisplayArms /\ enOut # NotDecoded) =>
         /\ enOut.tag = "Ok"
         /\ enOut.val \in StatusArms

\* Host and HostName converted into different strings.
C20_Witness ==
    /\ deField = "sort_key"
    /\ skKeys = <<"Host", "HostName">>
    /\ skOut = <<Ok("host"), Ok("hostname")>>

\* What instance i returns when it is driven alone: a function of what its
\* own transport delivered.
Alone(i) ==
    IF status[i] = 0 THEN Err(TransportFailure(cause[i]))
    ELSE IF NonSuccess(i) THEN Err(HttpError(status[i], Response(i)))
    ELSE IF ended[i] = "eof" THEN Delivered(Concat(arrived[i]))
    ELSE Err(TransportFailure(cause[i]))

\* C13: with two results driven in any interleaving, the accumulation buffer
\* of each holds only chunks of its own body source, in order, the parser of
\* each is given its own body, and the outcome of each is the one it has when
\* driven alone.
C13_InstancesIndependent ==
    \A i \in live :
        /\ body[i].some =>
             /\ body[i].src = i
             /\ body[i].buf = Concat(SubSeq(arrived[i], 1, body[i].taken))
             /\ \A k \in 1..Len(body[i].buf) : body[i].buf[k] = i - 1
        /\ \A k \in 1..Len(parses[i]) : parses[i][k] = Concat(arrived[i])
        /\ outcomes[i] # <<>> => outcomes[i][1] = Alone(i)

\* Both results accumulated two chunks over several interleaved polls and
\* each delivered the verdict on its own body.
C13_Witness ==
    /\ live = {1, 2}
    /\ bodyPolls[1] >= 2
    /\ bodyPolls[2] >= 2
    /\ outcomes[1] = <<Err(ParseFailure(<<0, 0>>))>>
    /\ outcomes[2] = <<Ready([typed |-> <<1, 1>>])>>

\* The state of the Typed Result machine: 1 AwaitingResponse, 2 AwaitingBody,
\* 3 Done.
Phase(out, unwound, handle) ==
    IF out # <<>> \/ unwound THEN 3 ELSE IF handle.some THEN 2 ELSE 1

\* C14: the machine only moves forward, enters AwaitingBody only on a 2xx
\* status, and once it is Done no progress step changes its state or drives
\* the guard, the body source or the parser.
C14_ForwardOnly ==
    [][\A i \in live :
         LET now == Phase(outcomes[i], panicked[i], body[i])
             next == Phase(outcomes'[i], panicked'[i], body'[i])
         IN  /\ next >= now
             /\ (now = 1 /\ next = 2) => (status[i] >= 200 /\ status[i] <= 299)
             /\ now = 3 =>
                  /\ body'[i] = body[i]
                  /\ outcomes'[i] = outcomes[i]
                  /\ innerPolls'[i] = innerPolls[i]
                  /\ bodyPolls'[i] = bodyPolls[i]
                  /\ parses'[i] = parses[i]]_vars

\* C15: once the accumulation handle exists no step replaces it, rebuilds it
\* or resets it to absent: it stays on the same body source and only grows;
\* the guard is not polled while it exists; a progress step before the body
\* source has ended returns NotReady and leaves the handle in place.
C15_HandleMemoized ==
    [][\A i \in live :
         body[i].some =>
             /\ body'[i].some
             /\ body'[i].src = body[i].src
             /\ handles'[i] = handles[i]
             /\ innerPolls'[i] = innerPolls[i]
             /\ body'[i].taken >= body[i].taken
             /\ Len(body'[i].buf) >= Len(body[i].buf)
             /\ SubSeq(body'[i].buf, 1, Len(body[i].buf)) = body[i].buf
             /\ body[i].done => body'[i] = body[i]
             /\ (steps'[i] # steps[i] /\ ended[i] = "open") =>
                  /\ last'[i] = NotReady
                  /\ ~body'[i].done
                  /\ outcomes'[i] = outcomes[i]]_vars

\* A handle holding part of the body after two polls that returned NotReady.
C15_Witness ==
    /\ body[1].some
    /\ ~body[1].done
    /\ body[1].buf # <<>>
    /\ handles[1] = 1
    /\ bodyPolls[1] >= 2
    /\ last[1] = NotReady

\* C16: the progress step in which the guard resolves with a response creates
\* the handle and polls it in that same step, taking every chunk that has
\* arrived; when the body source has already ended that step returns the
\* terminal outcome, and NotReady when it is still open.
C16_HandlePolledInSameStep ==
    [][\A i \in live :
         (guard'[i] # guard[i] /\ guard'[i][Len(guard'[i])].tag = "Ready") =>
             /\ handles'[i] = handles[i] + 1
             /\ bodyPolls'[i] = bodyPolls[i] + 1
             /\ body'[i].some
             /\ body'[i].taken = Len(arrived[i])
             /\ ended[i] = "open" => last'[i] = NotReady
             /\ ended[i] = "eof" =>
                  /\ last'[i] = Delivered(Concat(arrived[i]))
                  /\ outcomes'[i] = Append(outcomes[i], last'[i])]_vars

\* The very first progress step returned the value of a body that was
\* already complete.
C16_Witness ==
    /\ steps[1] = 1
    /\ arrived[1] # <<>>
    /\ outcomes[1] # <<>>
    /\ outcomes[1][1].tag = "Ready"

\* C17: a progress step taken while the request is still in flight returns
\* NotReady and changes nothing but the count of polls: no handle, no poll
\* of the body source, no parse, no outcome, and the transport as it was.
C17_PendingStepHasNoEffect ==
    [][\A i \in live :
         (steps'[i] # steps[i] /\ fr[i] = "pending") =>
             /\ last'[i] = NotReady
             /\ body'[i] = NoBody
             /\ handles'[i] = 0
             /\ bodyPolls'[i] = 0
             /\ parses'[i] = <<>>
             /\ outcomes'[i] = <<>>
             /\ guard'[i] = <<>>
             /\ <<fr, status, cause, arrived, ended, requests, panicked>>' =
                    <<fr, status, cause, arrived, ended, requests, panicked>>]_vars

\* Two progress steps taken while the request was in flight, then the outcome.
C17_Witness ==
    /\ innerPolls[1] >= 3
    /\ innerAgain[1] = 0
    /\ Len(guard[1]) = 1
    /\ outcomes[1] # <<>>

\* The transport of instance i has nothing more to deliver.
Settled(i) ==
    \/ fr[i] = "failed"
    \/ fr[i] = "done" /\ status[i] = 0
    \/ HasResponse(i) /\ (NonSuccess(i) \/ ended[i] # "open")

\* C19: when the driver keeps taking progress steps, a result whose transport
\* has nothing more to deliver, and for which the driver has a step left,
\* eventually returns a terminal outcome.
C19_EventuallyTerminal ==
    (Settled(1) /\ steps[1] < MaxPolls) ~> (outcomes[1] # <<>>)

\* An outcome returned after the result was found not ready twice.
C19_Witness ==
    /\ Settled(1)
    /\ steps[1] >= 3
    /\ Len(outcomes[1]) = 1
    /\ last[1] = outcomes[1][1]

====
